---- MODULE Spec2Model ----
(***************************************************************************)
(* Model of the process supervisor of vk-wrapper (src/server-manager.ts):  *)
(* ServerManager.startServer / killServer / killProcessTree and the Node   *)
(* events (stream data, exit, error, timers) that drive their callbacks.   *)
(* Text is modelled character by character: a string is a sequence of      *)
(* one-character strings, so that the URL scan, String.includes,           *)
(* String.replace and String.slice are computed as the code computes them. *)
(***************************************************************************)
EXTENDS Integers, Sequences, FiniteSets, TLC

(***************************************************************************)
(* Bounds of the model.                                                    *)
(***************************************************************************)
\* startServer calls made during a run
MaxCalls == 2
\* killServer calls made by the application during a run (each startup
\* timer makes one more of its own)
MaxKills == 2
\* output chunks delivered during a run (stdout and stderr together)
MaxChunks == 2
\* pieces of text a captured stderr is made of, for the message of the exit handler
MaxPieces == 3

Calls == 1..MaxCalls
\* killServer invocations: those of the caller, then the one of each call's startup timer
Kills == 1..(MaxKills + MaxCalls)
TimeoutKill(c) == MaxKills + c

(***************************************************************************)
(* Strings.                                                                *)
(***************************************************************************)
\* null / undefined / "" : every falsy string value of the code
NULL == <<>>

Digits == {"0", "1", "2", "3", "4", "5", "6", "7", "8", "9"}

\* s.startsWith(lit, i), positions from 1
StartsWithAt(s, i, lit) ==
  /\ i + Len(lit) - 1 <= Len(s)
  /\ \A j \in 1..Len(lit) : s[i + j - 1] = lit[j]

\* s.indexOf(pat), positions from 1, 0 when absent
indexOf(s, pat) ==
  LET hits == {i \in 1..(Len(s) + 1) : StartsWithAt(s, i, pat)}
  IN  IF hits = {} THEN 0 ELSE CHOOSE i \in hits : \A j \in hits : i <= j

\* s.includes(pat)
includes(s, pat) == indexOf(s, pat) # 0

\* s.slice(0, n)
slice(s, n) == SubSeq(s, 1, IF Len(s) < n THEN Len(s) ELSE n)

\* s.replace(pat, rep) with a string pattern: the first occurrence only
replace(s, pat, rep) ==
  LET i == indexOf(s, pat)
  IN  IF i = 0 THEN s
      ELSE SubSeq(s, 1, i - 1) \o rep \o SubSeq(s, i + Len(pat), Len(s))

s_http == <<"h", "t", "t", "p">>
s_https == <<"h", "t", "t", "p", "s">>
s_sep == <<":", "/", "/">>
s_colon == <<":">>
s_localhost == <<"l", "o", "c", "a", "l", "h", "o", "s", "t">>
s_loopback == <<"1", "2", "7", ".", "0", ".", "0", ".", "1">>
s_wildcard == <<"0", ".", "0", ".", "0", ".", "0">>
s_example == <<"e", "x", ".", "i", "o">>
s_AddrInUse == <<"A", "d", "d", "r", "I", "n", "U", "s", "e">>
s_AddressInUse == <<"A", "d", "d", "r", "e", "s", "s", " ", "a", "l", "r", "e", "a", "d", "y",
                    " ", "i", "n", " ", "u", "s", "e">>
s_ENOENT == <<"E", "N", "O", "E", "N", "T">>
s_notFound == <<"n", "o", "t", " ", "f", "o", "u", "n", "d">>
s_Listening == <<"L", "i", "s", "t", "e", "n", "i", "n", "g", " ", "o", "n", " ">>
s_nl == <<"\n">>

(***************************************************************************)
(* URL_REGEX = /https?:\/\/(?:localhost|127\.0\.0\.1|0\.0\.0\.0):\d+/       *)
(***************************************************************************)
\* the position after the scheme and "://" of a match starting at i, else 0
SchemeEnd(s, i) ==
  IF StartsWithAt(s, i, s_https \o s_sep) THEN i + 8
  ELSE IF StartsWithAt(s, i, s_http \o s_sep) THEN i + 7
  ELSE 0

\* the position after the host of a match whose host starts at i, else 0
HostEnd(s, i) ==
  IF StartsWithAt(s, i, s_localhost) THEN i + Len(s_localhost)
  ELSE IF StartsWithAt(s, i, s_loopback) THEN i + Len(s_loopback)
  ELSE IF StartsWithAt(s, i, s_wildcard) THEN i + Len(s_wildcard)
  ELSE 0

\* the last position of the greedy \d+ starting at i, i - 1 when no digit
DigitsEnd(s, i) ==
  LET stops == {j \in i..(Len(s) + 1) : j = Len(s) + 1 \/ s[j] \notin Digits}
  IN  (CHOOSE j \in stops : \A k \in stops : j <= k) - 1

\* the last position of the match of URL_REGEX that starts at i, else 0
MatchEnd(s, i) ==
  LET h == SchemeEnd(s, i)
      p == IF h = 0 THEN 0 ELSE HostEnd(s, h)
  IN  IF p = 0 \/ ~StartsWithAt(s, p, s_colon) THEN 0
      ELSE IF DigitsEnd(s, p + 1) < p + 1 THEN 0
      ELSE DigitsEnd(s, p + 1)

\* output.match(this.URL_REGEX): match[0] of the leftmost match, NULL for none
URL_REGEX(s) ==
  LET starts == {i \in 1..Len(s) : MatchEnd(s, i) # 0}
  IN  IF starts = {} THEN NULL
      ELSE LET i == CHOOSE x \in starts : \A y \in starts : x <= y
           IN  SubSeq(s, i, MatchEnd(s, i))

\* NormalizeUrl without the replacement of the wildcard host
NormalizeUrl_asMatched(m) == m

\* the address the data handlers record for a chunk with a match
NormalizeUrl(m) ==
  IF includes(m, s_wildcard) THEN replace(m, s_wildcard, s_localhost) ELSE m

(***************************************************************************)
(* Output chunks the child can write.  A chunk carries its text, which is  *)
(* all the handlers see, and a description of the URL the tool printed in  *)
(* it (scheme, host, port), which only the properties read.                *)
(***************************************************************************)
Url(scheme, host, port) == scheme \o s_sep \o host \o s_colon \o port

UrlChunk(pre, scheme, host, port, post) ==
  [text |-> pre \o Url(scheme, host, port) \o post, hasUrl |-> TRUE,
   scheme |-> scheme, host |-> host, port |-> port]

TextChunk(t) ==
  [text |-> t, hasUrl |-> FALSE, scheme |-> NULL, host |-> NULL, port |-> NULL]

NoChunk == TextChunk(NULL)

\* "Listening on http://0.0.0.0:3000\n"
c_Listening == UrlChunk(s_Listening, s_http, s_wildcard, <<"3", "0", "0", "0">>, s_nl)
\* "https://127.0.0.1:8080"
c_Secure == UrlChunk(NULL, s_https, s_loopback, <<"8", "0", "8", "0">>, NULL)
\* "Address already in use"
c_AddressInUse == TextChunk(s_AddressInUse)
\* "http://ex.io:80", a URL of a host that is not a loopback host
c_Foreign == TextChunk(Url(s_http, s_example, <<"8", "0">>))

StdoutChunks == {c_Listening, c_Foreign}
StderrChunks == {c_Secure, c_AddressInUse}

\* output.match(this.URL_REGEX) and the address recorded for it, tabulated
\* once for the chunks above
Scanned ==
  [ch \in StdoutChunks \cup StderrChunks |->
     [match |-> URL_REGEX(ch.text), recorded |-> NormalizeUrl(URL_REGEX(ch.text))]]

(***************************************************************************)
(* Values of the state.                                                    *)
(***************************************************************************)
NoError == [kind |-> "none", code |-> 0, detail |-> NULL]
Err(kind) == [kind |-> kind, code |-> 0, detail |-> NULL]

\* a promise: pending, resolved with an address, or rejected with an error
Pending == [st |-> "pending", url |-> NULL, err |-> NoError]
Resolved(u) == [st |-> "resolved", url |-> u, err |-> NoError]
Rejected(e) == [st |-> "rejected", url |-> NULL, err |-> e]

\* a promise that every resolve(...) or reject(...) settles anew
Settle_overwrite(p, outcome) == outcome

\* resolve(...) / reject(...) of a promise: only the first one settles it
Settle(p, outcome) == IF p.st = "pending" THEN outcome ELSE p

\* clearTimeout that cancels nothing
clearTimeout_noop(t) == t

\* clearTimeout(t): cancels an armed timer, no effect on any other
clearTimeout(t) == IF t = "armed" THEN "cleared" ELSE t

ExitCodes == {1}
\* the exit codes of the login shell of the capture
ShellCodes == {0, 1}
\* cachedShellEnv before any capture
NoEnv == "null"
\* what a run of the login shell's env prints, parsed: two runs need not
\* print the same
ShellOutputs == {"envA", "envB"}
\* process.platform: 'win32', or any other (macOS, Linux)
Platforms == {"posix", "win32"}
NodePaths == {"", "/usr/bin/node"}
NpxPaths == {"", "/usr/bin/npx"}

\* What the application and the child do during one run: so many startServer
\* calls, killServer calls and output chunks.  A run is either one launch
\* with every killServer call, or every launch with one killServer call less.
Quotas ==
  {[calls |-> 1, kills |-> MaxKills, chunks |-> MaxChunks],
   [calls |-> MaxCalls, kills |-> MaxKills - 1, chunks |-> MaxChunks]}

VARIABLES
  config,          \* ConfigManager.config: nodePath, npxPath ("" when unset)
  serverProcess,   \* ServerManager.serverProcess: 0 (null) or the child of a call
  serverUrl,       \* ServerManager.serverUrl: NULL or the recorded address
  cachedShellEnv,  \* ServerManager.cachedShellEnv: NoEnv (null) or the snapshot
  call,            \* per startServer call: its position, promise and closure
  child,           \* per startServer call: the child process it spawned
  kill,            \* per killServer invocation: its promise and closure
  quota,           \* the calls, kills and chunks the run has left
  probe,           \* an input and the result of a function applied to it
  platform,        \* process.platform
  app              \* VibeKanbanApp: isQuitting, its pending handlers, its end

vars == <<config, serverProcess, serverUrl, cachedShellEnv, call, child, kill, quota, probe,
          platform, app>>

\* shell: the login shell of the capture, "none", "running", "timedout" (the
\* 5 s timer fired, the shell still runs) or "closed"; the 5 s timer is armed
\* while "running"
NewCall ==
  [pc |-> "new", promise |-> Pending, timeout |-> "none", stderrOutput |-> NULL,
   shell |-> "none", env |-> "none",
   resolveCalls |-> 0, rejectCalls |-> 0, firstMatch |-> NoChunk, fresh |-> FALSE]

NoProbe ==
  [fn |-> "none", done |-> FALSE, chunk |-> NoChunk, code |-> 0, pieces |-> <<>>,
   url |-> NULL, err |-> NoError, procs |-> <<>>, tools |-> <<>>, signalled |-> {},
   shimPath |-> NULL, binaryName |-> NULL, disk |-> <<>>, result |-> <<>>, sorted |-> <<>>,
   twice |-> FALSE, again |-> <<>>, shellEnv |-> <<>>, port |-> 0, env |-> <<>>,
   cut |-> 0, fed |-> 0]

NewKill ==
  [st |-> "unused", target |-> 0, hasPid |-> FALSE, timer |-> "none",
   listening |-> FALSE, resolves |-> 0, sweeps |-> 0, signals |-> <<>>, steps |-> <<>>]

\* the application: the isQuitting flag, the handlers suspended on an await
\* of killServer (the handler and the killServer invocation), how many
\* killServer calls its quit handlers made, and how it ended ("running",
\* "quit" through app.quit(), "exit" through app.exit(0)); the main window
\* of its WindowManager (whether it exists and is not destroyed, and the page
\* it was last told to load: the setup form at first); and per launch-server
\* request the state of its IPC promise and the calls launchServer made on
\* the WindowManager
NewApp ==
  [isQuitting |-> FALSE, awaiting |-> {}, kills |-> 0, state |-> "running",
   window |-> [open |-> TRUE, shows |-> [op |-> "form", url |-> NULL, err |-> NoError]],
   launch |-> [c \in Calls |-> [ipc |-> "pending", handed |-> <<>>]]]

\* the application and its supervisor after construction
Constructed ==
  /\ serverProcess = 0
  /\ serverUrl = NULL
  /\ cachedShellEnv = NoEnv
  /\ app = NewApp
  /\ call = [c \in Calls |-> NewCall]
  /\ child = [c \in Calls |-> "none"]
  /\ kill = [k \in Kills |-> NewKill]

Init ==
  /\ Constructed
  /\ config \in [nodePath : NodePaths, npxPath : NpxPaths]
  /\ quota \in Quotas
  /\ probe = NoProbe
  /\ platform \in Platforms

\* ServerManager.isRunning(); ChildProcess.killed is set only by
\* ChildProcess.kill(), which is never called on the server process
killed(c) == FALSE
isRunning == serverProcess # 0 /\ ~killed(serverProcess)
getUrl == serverUrl

\* ChildProcess.pid is undefined when the spawn failed
HasPid(c) == child[c] \in {"alive", "exited"}

(***************************************************************************)
(* startServer: getPaths, getShellEnvironment, spawn                       *)
(***************************************************************************)
\* PathsMissing testing the node path alone
PathsMissing_nodeOnly == config.nodePath = ""

\* getPaths throws PATHS_NOT_CONFIGURED
PathsMissing == config.nodePath = "" \/ config.npxPath = ""

\* the setup form stores a pair of paths (set-paths); it refuses an empty one
SetPaths(n, x) ==
  /\ n # "" /\ x # ""
  /\ config # [nodePath |-> n, npxPath |-> x]
  /\ config' = [nodePath |-> n, npxPath |-> x]
  /\ UNCHANGED <<serverProcess, serverUrl, cachedShellEnv, call, child, kill, quota, probe, platform, app>>

\* resolve(env) of the capture promise: the first resolution wins
ResolveEnv(cur, e) == IF cur = "none" THEN e ELSE cur

\* getShellEnvironment: the cached snapshot, or the login shell is spawned.
\* When it cannot be spawned (shellOk = FALSE) its 'error' event follows on
\* the next tick, before any other event: clearTimeout, resolve(process.env);
\* the 'close' event after it changes nothing.
getShellEnvironment(cl, shellOk) ==
  IF cachedShellEnv # NoEnv THEN [cl EXCEPT !.env = cachedShellEnv]
  ELSE IF shellOk THEN [cl EXCEPT !.shell = "running"]
  ELSE [cl EXCEPT !.shell = "closed", !.env = ResolveEnv(@, "process")]

\* no process is active: no handle, no child alive, no launch under way
Quiet ==
  /\ serverProcess = 0
  /\ \A d \in Calls : call[d].pc # "env" /\ child[d] # "alive"

\* startServer up to its first suspension: getPaths, then getShellEnvironment
\* (fresh notes, for the properties, that the call began with no process active)
StartServer(c, shellOk) ==
  /\ call[c].pc = "new"
  /\ \A d \in Calls : d < c => call[d].pc # "new"
  /\ quota.calls > 0
  /\ quota' = [quota EXCEPT !.calls = @ - 1]
  /\ call' = [call EXCEPT ![c] =
       IF PathsMissing
       THEN [@ EXCEPT !.pc = "done", !.promise = Rejected(Err("PATHS_NOT_CONFIGURED")),
                      !.rejectCalls = 1]
       ELSE getShellEnvironment([@ EXCEPT !.pc = "env", !.fresh = Quiet], shellOk)]
  /\ UNCHANGED <<config, serverProcess, serverUrl, cachedShellEnv, child, kill, probe, platform, app>>

\* the login shell's 'close' event: clearTimeout, then resolve(process.env)
\* for a non-zero code, else cache and resolve the snapshot parsed from what
\* the shell printed (stdout, gathered by the 'data' handler)
ShellClose(c, code, stdout) ==
  /\ call[c].shell \in {"running", "timedout"}
  /\ call' = [call EXCEPT ![c].shell = "closed",
                          ![c].env = ResolveEnv(@, IF code # 0 THEN "process" ELSE stdout)]
  /\ cachedShellEnv' = IF code # 0 THEN cachedShellEnv ELSE stdout
  /\ UNCHANGED <<config, serverProcess, serverUrl, child, kill, quota, probe, platform, app>>

\* the 5 s capture timer: child.kill(), resolve(process.env)
ShellTimeout(c) ==
  /\ call[c].shell = "running"
  /\ call' = [call EXCEPT ![c].shell = "timedout",
                          ![c].env = ResolveEnv(@, "process")]
  /\ UNCHANGED <<config, serverProcess, serverUrl, cachedShellEnv, child, kill, quota, probe, platform, app>>

\* the server process's 'error' handler: clearTimeout, reject
OnError(cl) ==
  [cl EXCEPT !.timeout = clearTimeout(@),
             !.promise = Settle(@, Rejected(Err("SpawnFailure"))),
             !.rejectCalls = @ + 1]

\* startServer after the await: arm the startup timer and spawn the child.
\* When the spawn fails (ok = FALSE) no process exists, the handle has no
\* pid, and the 'error' event follows on the next tick, before any other
\* event; no 'exit' event follows it.
SpawnServer(c, ok) ==
  LET armed == [call[c] EXCEPT !.pc = "spawned", !.timeout = "armed", !.stderrOutput = NULL]
  IN  /\ call[c].pc = "env"
      /\ call[c].env # "none"
      /\ call' = [call EXCEPT ![c] = IF ok THEN armed ELSE OnError(armed)]
      /\ serverProcess' = c
      /\ child' = [child EXCEPT ![c] = IF ok THEN "alive" ELSE "errored"]
      /\ UNCHANGED <<config, serverUrl, cachedShellEnv, kill, quota, probe, platform, app>>

(***************************************************************************)
(* startServer: the stdout/stderr data handlers                            *)
(***************************************************************************)
\* if (match && !this.serverUrl)
ShouldRecord(match, url) == match # NULL /\ url = NULL

\* a 'data' event of a stream of child c: it comes while the child runs and,
\* for what is still in the pipe, after its exit
OnData(c, ch, isStderr) ==
  LET output == ch.text
      match == Scanned[ch].match
      hit == ShouldRecord(match, serverUrl)
      recorded == Scanned[ch].recorded
  IN  /\ child[c] \in {"alive", "exited"}
      /\ quota.chunks > 0
      /\ quota' = [quota EXCEPT !.chunks = @ - 1]
      /\ serverUrl' = IF hit THEN recorded ELSE serverUrl
      /\ call' = [call EXCEPT
           ![c].stderrOutput = IF isStderr THEN @ \o output ELSE @,
           ![c].timeout = IF hit THEN clearTimeout(@) ELSE @,
           ![c].promise = IF hit THEN Settle(@, Resolved(recorded)) ELSE @,
           ![c].resolveCalls = IF hit THEN @ + 1 ELSE @,
           ![c].firstMatch = IF @ = NoChunk /\ ch.hasUrl THEN ch ELSE @]
      /\ UNCHANGED <<config, serverProcess, cachedShellEnv, child, kill, probe, platform, app>>

StdoutData(c, ch) == OnData(c, ch, FALSE)
StderrData(c, ch) == OnData(c, ch, TRUE)

\* ExitMessage with the two signatures tested in the other order
ExitMessage_notFoundFirst(code, stderrOutput) ==
  IF includes(stderrOutput, s_ENOENT) \/ includes(stderrOutput, s_notFound)
  THEN Err("NotFound")
  ELSE IF includes(stderrOutput, s_AddrInUse) \/ includes(stderrOutput, s_AddressInUse)
  THEN Err("PortInUse")
  ELSE [kind |-> "Generic", code |-> code,
        detail |-> IF stderrOutput # NULL THEN slice(stderrOutput, 500) ELSE NULL]

\* the message the exit handler rejects with
ExitMessage(code, stderrOutput) ==
  IF includes(stderrOutput, s_AddrInUse) \/ includes(stderrOutput, s_AddressInUse)
  THEN Err("PortInUse")
  ELSE IF includes(stderrOutput, s_ENOENT) \/ includes(stderrOutput, s_notFound)
  THEN Err("NotFound")
  ELSE [kind |-> "Generic", code |-> code,
        detail |-> IF stderrOutput # NULL THEN slice(stderrOutput, 500) ELSE NULL]

(***************************************************************************)
(* killProcessTree, killServer                                             *)
(***************************************************************************)
\* killProcessTree(pid) signals the tree of pid (taskkill /T /F, or SIGTERM to
\* the children of pid and to the processes named vibe-kanban) and swallows
\* every failure: it changes no state of the supervisor.  What a signalled
\* process does is its own step (ExitEvent); sweeps counts the calls made by
\* a killServer invocation.
killProcessTree(n, hasPid) == IF hasPid THEN n + 1 ELSE n

\* what killProcessTree sends: taskkill /T /F on win32 (forced), else
\* process.kill(childPid, 'SIGTERM') and pkill, whose default is SIGTERM
SweepSignal == IF platform = "win32" THEN "taskkill /T /F" ELSE "SIGTERM"

\* the signals a killServer invocation has sent, after one more
\* if (pid) this.killProcessTree(pid)
Signals(sent, hasPid) == IF hasPid THEN Append(sent, SweepSignal) ELSE sent

\* Finish with the promise resolved before the sweep and the clearing
Finish_resolveFirst(hasPid) ==
  <<"resolve">> \o (IF hasPid THEN <<"killProcessTree">> ELSE <<>>)
    \o <<"serverProcess = null", "serverUrl = null">>

\* the statements that complete a killServer call, in the order the grace
\* timer's callback and the once('exit') listener run them
Finish(hasPid) ==
  (IF hasPid THEN <<"killProcessTree">> ELSE <<>>)
    \o <<"serverProcess = null", "serverUrl = null", "resolve">>

\* if (!this.serverProcess || this.serverProcess.killed)
NothingToKill == serverProcess = 0 \/ killed(serverProcess)

\* killServer that leaves serverUrl alone when there is nothing to kill
killServer_keepUrl(k) ==
  IF NothingToKill
  THEN /\ serverProcess' = 0
       /\ serverUrl' = serverUrl
       /\ kill' = [kill EXCEPT ![k] = [NewKill EXCEPT !.st = "resolved", !.resolves = 1,
                 !.steps = <<"serverProcess = null", "serverUrl = null", "resolve">>]]
  ELSE LET c == serverProcess
           pid == HasPid(c)
       IN  /\ kill' = [kill EXCEPT ![k] =
                 [st |-> "waiting", target |-> c, hasPid |-> pid, timer |-> "armed",
                  listening |-> TRUE, resolves |-> 0, sweeps |-> killProcessTree(0, pid),
                  signals |-> Signals(<<>>, pid),
                  steps |-> <<"setTimeout", "once">>
                            \o (IF pid THEN <<"killProcessTree">> ELSE <<>>)]]
           /\ UNCHANGED <<serverProcess, serverUrl>>

\* killServer that arms no grace timer
killServer_noTimer(k) ==
  IF NothingToKill
  THEN /\ serverProcess' = 0
       /\ serverUrl' = NULL
       /\ kill' = [kill EXCEPT ![k] = [NewKill EXCEPT !.st = "resolved", !.resolves = 1,
                 !.steps = <<"serverProcess = null", "serverUrl = null", "resolve">>]]
  ELSE LET c == serverProcess
           pid == HasPid(c)
       IN  /\ kill' = [kill EXCEPT ![k] =
                 [st |-> "waiting", target |-> c, hasPid |-> pid, timer |-> "none",
                  listening |-> TRUE, resolves |-> 0, sweeps |-> killProcessTree(0, pid),
                  signals |-> Signals(<<>>, pid),
                  steps |-> <<"setTimeout", "once">>
                            \o (IF pid THEN <<"killProcessTree">> ELSE <<>>)]]
           /\ UNCHANGED <<serverProcess, serverUrl>>

\* the body of killServer, run as invocation k
killServer(k) ==
  IF NothingToKill
  THEN /\ serverProcess' = 0
       /\ serverUrl' = NULL
       /\ kill' = [kill EXCEPT ![k] = [NewKill EXCEPT !.st = "resolved", !.resolves = 1,
                 !.steps = <<"serverProcess = null", "serverUrl = null", "resolve">>]]
  ELSE LET c == serverProcess
           pid == HasPid(c)
       IN  /\ kill' = [kill EXCEPT ![k] =
                 [st |-> "waiting", target |-> c, hasPid |-> pid, timer |-> "armed",
                  listening |-> TRUE, resolves |-> 0, sweeps |-> killProcessTree(0, pid),
                  signals |-> Signals(<<>>, pid),
                  steps |-> <<"setTimeout", "once">>
                            \o (IF pid THEN <<"killProcessTree">> ELSE <<>>)]]
           /\ UNCHANGED <<serverProcess, serverUrl>>

\* killServer called by the application
KillServer(k) ==
  /\ k \in 1..MaxKills
  /\ kill[k].st = "unused"
  /\ \A j \in 1..MaxKills : j < k => kill[j].st # "unused"
  /\ quota.kills > 0
  /\ quota' = [quota EXCEPT !.kills = @ - 1]
  /\ killServer(k)
  /\ UNCHANGED <<config, cachedShellEnv, call, child, probe, platform, app>>

\* the startup timer of call c fires: this.killServer(); reject(timeout)
StartupTimeout(c) ==
  /\ call[c].timeout = "armed"
  /\ killServer(TimeoutKill(c))
  /\ call' = [call EXCEPT ![c].timeout = "fired",
                          ![c].promise = Settle(@, Rejected(Err("StartupTimeout"))),
                          ![c].rejectCalls = @ + 1]
  /\ UNCHANGED <<config, cachedShellEnv, child, quota, probe, platform, app>>

\* the grace timer of killServer invocation k fires
ForceKillTimeout(k) ==
  /\ kill[k].timer = "armed"
  /\ kill' = [kill EXCEPT ![k].timer = "fired", ![k].st = "resolved",
                          ![k].resolves = @ + 1,
                          ![k].sweeps = killProcessTree(@, kill[k].hasPid),
                          ![k].signals = Signals(@, kill[k].hasPid),
                          ![k].steps = @ \o Finish(kill[k].hasPid)]
  /\ serverProcess' = 0
  /\ serverUrl' = NULL
  /\ UNCHANGED <<config, cachedShellEnv, call, child, quota, probe, platform, app>>

\* the killServer invocations whose once('exit') listener is on child c
ExitListeners(c) == {k \in Kills : kill[k].listening /\ kill[k].target = c}

\* the server process's 'exit' event: the exit handler of startServer, then
\* the once('exit') listeners of killServer
ExitEvent(c, code) ==
  /\ child[c] = "alive"
  /\ child' = [child EXCEPT ![c] = "exited"]
  /\ call' = IF serverUrl = NULL
             THEN [call EXCEPT
                     ![c].timeout = clearTimeout(@),
                     ![c].promise = Settle(@, Rejected(ExitMessage(code, call[c].stderrOutput))),
                     ![c].rejectCalls = @ + 1]
             ELSE call
  /\ serverProcess' = 0
  /\ serverUrl' = IF ExitListeners(c) # {} THEN NULL ELSE serverUrl
  /\ kill' = [k \in Kills |->
               IF k \in ExitListeners(c)
               THEN [kill[k] EXCEPT !.timer = clearTimeout(@), !.listening = FALSE,
                                    !.st = "resolved", !.resolves = @ + 1,
                                    !.sweeps = killProcessTree(@, kill[k].hasPid),
                                    !.signals = Signals(@, kill[k].hasPid),
                                    !.steps = @ \o <<"clearTimeout">>
                                                \o Finish(kill[k].hasPid)]
               ELSE kill[k]]
  /\ UNCHANGED <<config, cachedShellEnv, quota, probe, platform, app>>

Next ==
  \/ \E n \in NodePaths, x \in NpxPaths : SetPaths(n, x)
  \/ \E c \in Calls, ok \in BOOLEAN : StartServer(c, ok)
  \/ \E c \in Calls, code \in ExitCodes, out \in ShellOutputs : ShellClose(c, code, out)
  \/ \E c \in Calls : ShellTimeout(c)
  \/ \E c \in Calls, ok \in BOOLEAN : SpawnServer(c, ok)
  \/ \E c \in Calls, ch \in StdoutChunks : StdoutData(c, ch)
  \/ \E c \in Calls, ch \in StderrChunks : StderrData(c, ch)
  \/ \E c \in Calls, code \in ExitCodes : ExitEvent(c, code)
  \/ \E c \in Calls : StartupTimeout(c)
  \/ \E k \in Kills : KillServer(k)
  \/ \E k \in Kills : ForceKillTimeout(k)

Spec == Init /\ [][Next]_vars

(***************************************************************************)
(* The URL scan of the data handlers, applied to one chunk.                *)
(***************************************************************************)
s_space == <<" ">>
s_api == <<"/", "a", "p", "i">>
p_80 == <<"8", "0">>
p_3000 == <<"3", "0", "0", "0">>
p_9 == <<"9">>

\* what a chunk has before and after the URL the tool printed in it: text
\* that holds the wildcard address, a URL of a foreign host, a loopback URL
\* that lacks its port, a path, a second URL
ScanBefore ==
  {NULL, s_Listening, s_wildcard \o s_space, Url(s_http, s_example, p_80) \o s_space,
   s_http \o s_sep \o s_localhost \o s_colon \o s_space}
ScanAfter == {NULL, s_nl, s_api, s_space \o Url(s_http, s_wildcard, p_9)}

ScanChunks ==
  {UrlChunk(pre, scheme, host, port, post) :
     pre \in ScanBefore, scheme \in {s_http, s_https},
     host \in {s_localhost, s_loopback, s_wildcard}, port \in {p_80, p_3000},
     post \in ScanAfter}

InitScan ==
  /\ Constructed
  /\ config = [nodePath |-> "", npxPath |-> ""]
  /\ quota = [calls |-> 0, kills |-> 0, chunks |-> 0]
  /\ platform = "posix"
  /\ probe \in {[NoProbe EXCEPT !.fn = "scan", !.chunk = ch] : ch \in ScanChunks}

\* const match = output.match(this.URL_REGEX); if (match) the address recorded
Scan ==
  /\ probe.fn = "scan" /\ ~probe.done
  /\ probe' = [probe EXCEPT !.done = TRUE,
                 !.url = LET match == URL_REGEX(probe.chunk.text)
                         IN  IF match # NULL THEN NormalizeUrl(match) ELSE NULL]
  /\ UNCHANGED <<config, serverProcess, serverUrl, cachedShellEnv, call, child, kill, quota, platform, app>>

SpecScan == InitScan /\ [][Scan]_vars

(***************************************************************************)
(* The message of the exit handler, applied to one captured stderr.        *)
(***************************************************************************)
s_warn == <<"w", "a", "r", "n", ":", " ">>
s_NotFoundCaps == <<"N", "o", "t", " ", "F", "o", "u", "n", "d">>
s_filler == [i \in 1..300 |-> "x"]

\* the pieces a captured stderr is made of: the four signatures, text that
\* is none of them, and 300 characters of filler
Pieces ==
  [AddrInUse |-> s_AddrInUse, AddressInUse |-> s_AddressInUse, ENOENT |-> s_ENOENT,
   notFound |-> s_notFound, warn |-> s_warn, NotFoundCaps |-> s_NotFoundCaps,
   filler |-> s_filler]
PieceNames == DOMAIN Pieces

RECURSIVE TextOf(_)
TextOf(ps) == IF ps = <<>> THEN NULL ELSE Pieces[Head(ps)] \o TextOf(Tail(ps))

PieceSeqs == UNION {[1..n -> PieceNames] : n \in 0..MaxPieces}
ProbeCodes == {0, 1}

InitExit ==
  /\ Constructed
  /\ config = [nodePath |-> "", npxPath |-> ""]
  /\ quota = [calls |-> 0, kills |-> 0, chunks |-> 0]
  /\ platform = "posix"
  /\ probe \in {[NoProbe EXCEPT !.fn = "exit", !.pieces = ps, !.code = code] :
                   ps \in PieceSeqs, code \in ProbeCodes}

Exit ==
  /\ probe.fn = "exit" /\ ~probe.done
  /\ probe' = [probe EXCEPT !.done = TRUE,
                            !.err = ExitMessage(probe.code, TextOf(probe.pieces))]
  /\ UNCHANGED <<config, serverProcess, serverUrl, cachedShellEnv, call, child, kill, quota, platform, app>>

SpecExit == InitExit /\ [][Exit]_vars

(***************************************************************************)
(* Properties.                                                             *)
(***************************************************************************)
\* the address a chunk's URL stands for: the wildcard host read as localhost,
\* scheme and port as printed
ExpectedAddress(ch) ==
  ch.scheme \o s_sep \o (IF ch.host = s_wildcard THEN s_localhost ELSE ch.host)
            \o s_colon \o ch.port

AllChunks == StdoutChunks \cup StderrChunks
DataStep(c, ch) == StdoutData(c, ch) \/ StderrData(c, ch)
ExitStep(c) == \E code \in ExitCodes : ExitEvent(c, code)
s_localhost3000 == s_http \o s_sep \o s_localhost \o s_colon \o p_3000

\* C1: within one startServer call readiness is first-match-wins: the data
\* handlers of the call resolve it at most once, and the address it resolved
\* with is the one of the first chunk of the call that held a URL; a later
\* chunk with a URL neither records an address nor resolves again.
C1_FirstMatchWins ==
  \A c \in Calls :
    /\ call[c].resolveCalls <= 1
    /\ call[c].promise.st = "resolved" =>
         call[c].promise.url = ExpectedAddress(call[c].firstMatch)

\* a call resolved twice, and the address recorded now is not the one it
\* resolved with
C1_Witness ==
  \E c \in Calls :
    /\ call[c].resolveCalls = 2
    /\ call[c].promise.st = "resolved"
    /\ serverUrl # NULL /\ serverUrl # call[c].promise.url

\* C2: for a startServer call that began with no process active, the first
\* chunk with a URL records its address, cancels the startup timer and
\* resolves the call with that address.
C2_FirstMatchResolves ==
  [][\A c \in Calls, ch \in AllChunks :
       ( /\ DataStep(c, ch)
         /\ ch.hasUrl
         /\ call[c].fresh
         /\ call[c].firstMatch = NoChunk
         /\ call[c].promise.st = "pending"
         /\ \A d \in Calls : d > c => call[d].pc = "new" )
       => /\ serverUrl' = ExpectedAddress(ch)
          /\ call'[c].timeout = "cleared"
          /\ call'[c].promise = Resolved(ExpectedAddress(ch))]_vars

\* the latest call began with no process active, its child has printed a
\* URL, and the call is still pending with its startup timer armed
C2_Witness ==
  \E c \in Calls :
    /\ call[c].fresh /\ call[c].firstMatch # NoChunk
    /\ call[c].promise.st = "pending" /\ call[c].timeout = "armed"
    /\ \A d \in Calls : d > c => call[d].pc = "new"

\* C3: the address recorded for a chunk is the first URL in it with the
\* wildcard host 0.0.0.0 replaced by localhost and scheme and port unchanged,
\* and it never contains 0.0.0.0.
C3_NormalizedAddress ==
  probe.fn = "scan" /\ probe.done =>
    /\ probe.url = ExpectedAddress(probe.chunk)
    /\ ~includes(probe.url, s_wildcard)

\* "Listening on http://0.0.0.0:3000\n" was scanned and gave http://localhost:3000
C3_Witness ==
  /\ probe.fn = "scan" /\ probe.done
  /\ probe.chunk = c_Listening
  /\ probe.url = s_localhost3000

\* C4: when the startup timer fires before any readiness match, killServer is
\* run, the call fails with StartupTimeout, and isRunning() is false when the
\* caller observes the failure.
C4_TimeoutLeavesIdle ==
  [][\A c \in Calls :
       StartupTimeout(c) /\ call[c].firstMatch = NoChunk
       => /\ kill'[TimeoutKill(c)].st # "unused"
          /\ call'[c].promise = Rejected(Err("StartupTimeout"))
          /\ serverProcess' = 0]_vars

\* a call has failed with StartupTimeout, no chunk of it held a URL, and the
\* handle of its child is still set
C4_Witness ==
  \E c \in Calls :
    /\ call[c].promise = Rejected(Err("StartupTimeout"))
    /\ call[c].firstMatch = NoChunk
    /\ serverProcess = c /\ isRunning

\* C5: after a failed spawn the startup timer is cancelled, the call has
\* failed with SpawnFailure, no handle of the failed child is left, and no
\* killServer call waits for it.
C5_SpawnFailureLeavesIdle ==
  \A c \in Calls :
    child[c] = "errored" =>
      /\ call[c].timeout = "cleared"
      /\ call[c].promise = Rejected(Err("SpawnFailure"))
      /\ serverProcess # c
      /\ \A k \in Kills : ~(kill[k].st = "waiting" /\ kill[k].target = c)

\* the spawn of a call failed, its handle is still set, and a killServer
\* call waits for the child that never existed
C5_Witness ==
  \E c \in Calls, k \in Kills :
    /\ child[c] = "errored" /\ serverProcess = c
    /\ kill[k].st = "waiting" /\ kill[k].target = c /\ ~kill[k].hasPid

\* C6: when the child of a pending call that began with no process active
\* exits before any readiness match of that call, the startup timer is cancelled, the
\* handle is cleared and the call fails, once, with an EarlyExit message.
C6_EarlyExitFails ==
  [][\A c \in Calls :
       ( /\ ExitStep(c)
         /\ call[c].fresh
         /\ call[c].firstMatch = NoChunk
         /\ call[c].promise.st = "pending"
         /\ \A d \in Calls : d # c => child[d] # "alive"
         /\ \A d \in Calls : d > c => call[d].pc = "new" )
       => /\ call'[c].timeout = "cleared"
          /\ serverProcess' = 0
          /\ call'[c].promise.st = "rejected"
          /\ call'[c].promise.err.kind \in {"Generic", "PortInUse", "NotFound"}
          /\ call'[c].rejectCalls = 1]_vars

\* the child of the latest call, begun with no process active, has exited
\* without a URL, and the call is still pending with its startup timer armed
C6_Witness ==
  \E c \in Calls :
    /\ call[c].fresh /\ child[c] = "exited" /\ call[c].firstMatch = NoChunk
    /\ call[c].promise.st = "pending" /\ call[c].timeout = "armed"
    /\ \A d \in Calls : d > c => call[d].pc = "new"

\* the first n characters of t
Prefix(t, n) == [i \in 1..(IF Len(t) < n THEN Len(t) ELSE n) |-> t[i]]
HasPiece(ps, names) == \E i \in 1..Len(ps) : ps[i] \in names

\* C7: the EarlyExit message is the port-conflict message when stderr holds
\* "AddrInUse" or "Address already in use", otherwise the tool-not-found
\* message when it holds "ENOENT" or "not found", otherwise the generic
\* message with the exit code and the first 500 characters of stderr.
C7_ExitClassification ==
  probe.fn = "exit" /\ probe.done =>
    IF HasPiece(probe.pieces, {"AddrInUse", "AddressInUse"})
    THEN probe.err = Err("PortInUse")
    ELSE IF HasPiece(probe.pieces, {"ENOENT", "notFound"})
    THEN probe.err = Err("NotFound")
    ELSE /\ probe.err.kind = "Generic"
         /\ probe.err.code = probe.code
         /\ probe.err.detail = Prefix(TextOf(probe.pieces), 500)

\* a stderr with both "ENOENT" and "Address already in use" gave the
\* port-conflict message
C7_Witness ==
  /\ probe.fn = "exit" /\ probe.done
  /\ HasPiece(probe.pieces, {"ENOENT"})
  /\ HasPiece(probe.pieces, {"AddressInUse"})
  /\ probe.err.kind = "PortInUse"

\* C8: a startServer call made while either configured path is absent fails
\* with PATHS_NOT_CONFIGURED and starts nothing: no login shell, no child, no
\* startup timer, the handle and the recorded address unchanged.
C8_PathsNotConfigured ==
  [][/\ \A c \in Calls, ok \in BOOLEAN :
          StartServer(c, ok) /\ (config.nodePath = "" \/ config.npxPath = "")
          => /\ call'[c].promise = Rejected(Err("PATHS_NOT_CONFIGURED"))
             /\ call'[c].pc = "done"
             /\ serverProcess' = serverProcess
             /\ serverUrl' = serverUrl
             /\ child' = child
     /\ \A c \in Calls :
          call'[c].promise.err.kind = "PATHS_NOT_CONFIGURED"
          => /\ call'[c].shell = "none" /\ call'[c].env = "none"
             /\ call'[c].timeout = "none"
             /\ child'[c] = "none"]_vars

\* a call failed with PATHS_NOT_CONFIGURED and a later one, the paths set,
\* spawned its child
C8_Witness ==
  /\ call[1].promise.err.kind = "PATHS_NOT_CONFIGURED"
  /\ child[2] = "alive"

\* C9: killServer called with no active process resolves at once, sends no
\* signal and arms no timer; and whenever a killServer call resolves, no
\* handle and no address are left.
C9_KillIdempotent ==
  [][\A k \in Kills :
       /\ (kill[k].st = "unused" /\ kill'[k].st # "unused" /\ serverProcess = 0)
          => /\ kill'[k].st = "resolved" /\ kill'[k].resolves = 1
             /\ kill'[k].timer = "none" /\ kill'[k].sweeps = 0
             /\ ~kill'[k].listening
       /\ (kill[k].st # "resolved" /\ kill'[k].st = "resolved")
          => serverProcess' = 0 /\ serverUrl' = NULL]_vars

\* two killServer calls in sequence: the first found a process, the second
\* found none and resolved at once
C9_Witness ==
  /\ kill[1].st = "resolved" /\ kill[1].timer # "none"
  /\ kill[2].st = "resolved" /\ kill[2].timer = "none"
  /\ serverProcess = 0 /\ serverUrl = NULL

\* the runs the liveness property is checked on
FairQuotas ==
  {[calls |-> 1, kills |-> MaxKills, chunks |-> MaxChunks],
   [calls |-> MaxCalls, kills |-> MaxKills - 1, chunks |-> MaxChunks - 1]}

FairInit ==
  /\ Constructed
  /\ config \in [nodePath : NodePaths, npxPath : NpxPaths]
  /\ quota \in FairQuotas
  /\ probe = NoProbe
  /\ platform \in Platforms

\* a timer that was armed and not cancelled fires
FairSpec == FairInit /\ [][Next]_vars /\ \A k \in Kills : WF_vars(ForceKillTimeout(k))

\* C10: every killServer call that has to wait eventually resolves, on the
\* child's exit or at the latest when its grace timer fires, whatever the
\* state it was called in and whatever the child does.
C10_KillResolves ==
  \A k \in Kills : (kill[k].st = "waiting") ~> (kill[k].st = "resolved")

\* a killServer call made after a failed spawn (no pid) resolved through its
\* grace timer
C10_Witness ==
  \E k \in Kills :
    /\ kill[k].st = "resolved" /\ kill[k].timer = "fired"
    /\ ~kill[k].hasPid /\ child[kill[k].target] = "errored"

\* a signal that a process cannot ignore
Forceful(sig) == sig \in {"SIGKILL", "taskkill /T /F"}

\* C11: when a killServer call on a process with a pid completes through its
\* grace timer (the tree had not exited in time), the last signal it sent to
\* the tree is an unconditional kill, so that a child ignoring the graceful
\* signal does not survive the call.
C11_Escalation ==
  \A k \in Kills :
    (kill[k].st = "resolved" /\ kill[k].timer = "fired" /\ kill[k].hasPid)
    => /\ kill[k].signals # <<>>
       /\ Forceful(kill[k].signals[Len(kill[k].signals)])

\* a killServer call has resolved through its grace timer having sent
\* SIGTERM twice and nothing else, and its child is still alive
C11_Witness ==
  \E k \in Kills :
    /\ kill[k].st = "resolved" /\ kill[k].timer = "fired" /\ kill[k].hasPid
    /\ kill[k].signals = <<"SIGTERM", "SIGTERM">>
    /\ child[kill[k].target] = "alive"

(***************************************************************************)
(* killProcessTree applied to one process table.                           *)
(***************************************************************************)
\* processes of the system besides the spawned one
MaxProcs == 3

\* the spawned process (serverProcess.pid) and the other processes
RootPid == 1
Pids == 1..(MaxProcs + 1)

\* a process table: the parent of each process (0: a process that is not
\* ours) and whether its command line contains "vibe-kanban"; the spawned
\* shell's does (command = `"${npxPath}" vibe-kanban@latest`)
ProcTables ==
  {t \in [parent : [Pids -> 0..MaxProcs], named : [Pids -> BOOLEAN]] :
     /\ t.parent[RootPid] = 0 /\ t.named[RootPid]
     /\ \A p \in Pids : t.parent[p] < p}

\* p is pid or a descendant of pid
RECURSIVE InTree(_, _, _)
InTree(t, pid, p) ==
  \/ p = pid
  \/ t.parent[p] # 0 /\ InTree(t, pid, t.parent[p])

\* the processes killProcessTree(pid) signals.  win32: taskkill /pid /T /F,
\* the process and its descendants.  Otherwise: the processes pgrep -P pid
\* lists (the direct children), when pgrep works, and the processes
\* pkill -f "vibe-kanban" matches, when pkill works.
SweepTargets(plat, t, pid, tools) ==
  IF plat = "win32"
  THEN {p \in Pids : InTree(t, pid, p)}
  ELSE {p \in Pids : tools.pgrep /\ t.parent[p] = pid}
       \cup {p \in Pids : tools.pkill /\ t.named[p]}

InitSweep ==
  /\ Constructed
  /\ config = [nodePath |-> "", npxPath |-> ""]
  /\ quota = [calls |-> 0, kills |-> 0, chunks |-> 0]
  /\ platform \in Platforms
  /\ probe \in {[NoProbe EXCEPT !.fn = "sweep", !.procs = t, !.tools = u] :
                   t \in ProcTables, u \in [pgrep : BOOLEAN, pkill : BOOLEAN]}

Sweep ==
  /\ probe.fn = "sweep" /\ ~probe.done
  /\ probe' = [probe EXCEPT !.done = TRUE,
                 !.signalled = SweepTargets(platform, probe.procs, RootPid, probe.tools)]
  /\ UNCHANGED <<config, serverProcess, serverUrl, cachedShellEnv, call, child, kill, quota,
                 platform, app>>

SpecSweep == InitSweep /\ [][Sweep]_vars

\* C12: the sweep for the captured pid signals every process of the tree
\* rooted at it: the root, its direct children and all further descendants
\* (stated for a system on which pgrep and pkill work).
C12_SignalsWholeTree ==
  (probe.fn = "sweep" /\ probe.done /\ probe.tools.pgrep /\ probe.tools.pkill) =>
    \A p \in Pids : InTree(probe.procs, RootPid, p) => p \in probe.signalled

\* pgrep and pkill work, the root and its child were signalled, and a
\* grandchild whose command line lacks the name was not
C12_Witness ==
  /\ probe.fn = "sweep" /\ probe.done /\ platform = "posix"
  /\ probe.tools.pgrep /\ probe.tools.pkill
  /\ probe.procs.parent[2] = RootPid /\ probe.procs.parent[3] = 2
  /\ ~probe.procs.named[3]
  /\ {RootPid, 2} \subseteq probe.signalled /\ 3 \notin probe.signalled

\* what a step appended to the statements run by killServer invocation k
NewSteps(k) == SubSeq(kill'[k].steps, Len(kill[k].steps) + 1, Len(kill'[k].steps))

\* seq runs the sweep once, then clears the handle, then the URL, and
\* resolves last
SweepClearResolve(seq) ==
  \E i, j, l \in 1..Len(seq) :
    /\ i < j /\ j < l /\ l < Len(seq)
    /\ seq[i] = "killProcessTree"
    /\ seq[j] = "serverProcess = null"
    /\ seq[l] = "serverUrl = null"
    /\ seq[Len(seq)] = "resolve"
    /\ \A n \in 1..Len(seq) : seq[n] = "killProcessTree" => n = i

C14_ExitWithinGrace ==
  [][\A k \in Kills :
       /\ ( /\ kill[k].timer = "armed"
            /\ child[kill[k].target] = "alive"
            /\ child'[kill[k].target] = "exited" )
          => /\ kill'[k].timer = "cleared"
             /\ kill'[k].st = "resolved" /\ kill'[k].resolves = 1
             /\ ~kill'[k].listening
             /\ serverProcess' = 0 /\ serverUrl' = NULL
       /\ kill[k].timer = "cleared"
          => /\ kill'[k].timer = "cleared"
             /\ kill'[k].resolves = 1
             /\ kill'[k].sweeps = kill[k].sweeps]_vars

\* a killServer call for a live child was completed by the child's exit:
\* timer cancelled, one resolution, the initial and the final sweep, Idle
C14_Witness ==
  \E k \in Kills :
    /\ kill[k].timer = "cleared" /\ kill[k].st = "resolved"
    /\ kill[k].resolves = 1 /\ kill[k].hasPid /\ kill[k].sweeps = 2
    /\ serverProcess = 0 /\ serverUrl = NULL

\* C15: the recorded address is cleared on termination: no state has a
\* recorded address without a process handle, and once the exit of the
\* process that printed the address was observed getUrl() is absent.
C15_UrlClearedOnTermination ==
  getUrl # NULL => serverProcess # 0

\* the server became Ready and exited on its own, and its address is still
\* recorded although no child is alive and no handle is left
C15_Witness ==
  /\ serverProcess = 0 /\ getUrl # NULL
  /\ child[1] = "exited" /\ call[1].promise.st = "resolved"
  /\ \A c \in Calls : child[c] # "alive"
  /\ \A k \in Kills : kill[k].st = "unused"

\* C16: isRunning() is true exactly when a process handle exists for a child
\* that was actually spawned and whose exit has not been observed.
C16_IsRunningIffLiveChild ==
  isRunning <=> (serverProcess # 0 /\ child[serverProcess] = "alive")

\* isRunning() is true although the spawn failed and no process exists
C16_Witness ==
  /\ isRunning
  /\ child[serverProcess] = "errored"
  /\ \A c \in Calls : child[c] # "alive"

\* The lifecycle state of the supervisor, read off its fields (the code keeps
\* no state field): Terminating while a killServer call waits for the
\* process, Ready while an address is recorded, Starting from the start of a
\* launch until then, Idle otherwise.
State ==
  IF serverProcess # 0 /\ \E k \in Kills : kill[k].st = "waiting" THEN "Terminating"
  ELSE IF serverProcess # 0 /\ serverUrl # NULL THEN "Ready"
  ELSE IF serverProcess # 0 \/ \E c \in Calls : call[c].pc = "env" THEN "Starting"
  ELSE "Idle"

Lifecycle ==
  {<<"Idle", "Starting">>, <<"Starting", "Ready">>, <<"Ready", "Terminating">>,
   <<"Terminating", "Idle">>, <<"Starting", "Idle">>}

\* C17: the lifecycle only takes the transitions Idle -> Starting,
\* Starting -> Ready, Ready -> Terminating, Terminating -> Idle and
\* Starting -> Idle (a teardown begun while Starting, by killServer or by the
\* startup timer, is let pass as part of Starting -> Idle).
C17_LifecycleTransitions ==
  [][\/ State' = State
     \/ <<State, State'>> \in Lifecycle
     \/ <<State, State'>> = <<"Starting", "Terminating">>]_vars

\* the supervisor is Idle after a server that was Ready exited with no
\* killServer call ever made: Ready was left without Terminating
C17_Witness ==
  /\ State = "Idle"
  /\ \E c \in Calls : call[c].promise.st = "resolved" /\ child[c] = "exited"
  /\ \A k \in Kills : kill[k].st = "unused"

\* C18: a startServer call made while the supervisor is Starting or Ready is
\* stopped by a guard: it does not go on to launch, and no spawn replaces a
\* process handle that is set.
C18_SingleChildGuard ==
  [][\A c \in Calls, ok \in BOOLEAN :
       /\ (StartServer(c, ok) /\ State \in {"Starting", "Ready"})
          => call'[c].pc = "done"
       /\ SpawnServer(c, ok) => serverProcess = 0]_vars

\* two children are alive with no killServer call ever made, and the handle
\* is the one of the second
C18_Witness ==
  /\ child[1] = "alive" /\ child[2] = "alive"
  /\ serverProcess = 2
  /\ \A k \in Kills : kill[k].st = "unused"

(***************************************************************************)
(* resolveProtoShim: a configured path, a binary name and the state of the *)
(* disk under ~/.proto/tools/node.                                         *)
(***************************************************************************)
s_protoShims == <<".", "p", "r", "o", "t", "o", "/", "s", "h", "i", "m", "s">>
s_protoTools == <<".", "p", "r", "o", "t", "o", "/", "t", "o", "o", "l", "s">>
s_home == <<"/", "h", "o", "m", "e", "/", "u">>
s_usrBin == <<"/", "u", "s", "r", "/", "b", "i", "n">>
s_bin == <<"b", "i", "n">>
s_node == <<"n", "o", "d", "e">>
s_npx == <<"n", "p", "x">>
s_slash == <<"/">>
s_dot == <<".">>

\* path.join(a, b) of two normalised paths
join(a, b) == a \o s_slash \o b

\* s.split(sep)
RECURSIVE split(_, _)
split(s, sep) ==
  LET i == indexOf(s, sep)
  IN  IF i = 0 THEN <<s>>
      ELSE <<SubSeq(s, 1, i - 1)>> \o split(SubSeq(s, i + Len(sep), Len(s)), sep)

DigitSeq == <<"0", "1", "2", "3", "4", "5", "6", "7", "8", "9">>
DigitValue(ch) == (CHOOSE i \in 1..10 : DigitSeq[i] = ch) - 1

\* the number the digits of s from position i on stand for, after acc
RECURSIVE DigitsValue(_, _, _)
DigitsValue(s, i, acc) ==
  IF i > Len(s) \/ s[i] \notin Digits THEN acc
  ELSE DigitsValue(s, i + 1, acc * 10 + DigitValue(s[i]))

NaN == [nan |-> TRUE, val |-> 0]

\* parseInt(s, 10): leading white space, a sign, then the leading digits;
\* NaN when no digit follows
parseInt(s) ==
  LET rest == {i \in 1..(Len(s) + 1) : i = Len(s) + 1 \/ s[i] # " "}
      start == CHOOSE i \in rest : \A j \in rest : i <= j
      signed == start <= Len(s) /\ s[start] \in {"-", "+"}
      d == IF signed THEN start + 1 ELSE start
  IN  IF d > Len(s) \/ s[d] \notin Digits THEN NaN
      ELSE [nan |-> FALSE,
            val |-> (IF signed /\ s[start] = "-" THEN -1 ELSE 1) * DigitsValue(s, d, 0)]

\* x || 0 for a number x
OrZero(x) == IF x.nan THEN 0 ELSE x.val

\* a.split('.').map(n => parseInt(n, 10) || 0)
Parts(a) ==
  LET texts == split(a, s_dot)
  IN  [i \in 1..Len(texts) |-> OrZero(parseInt(texts[i]))]

\* parts[i] || 0, positions from 1
PartAt(parts, i) == IF i <= Len(parts) THEN parts[i] ELSE 0

\* a comparator with the operands of the subtraction exchanged (ascending)
compareVersions_ascending(a, b) ==
  LET partsA == Parts(a)
      partsB == Parts(b)
      n == IF Len(partsA) < Len(partsB) THEN Len(partsB) ELSE Len(partsA)
      differ == {i \in 1..n : PartAt(partsA, i) - PartAt(partsB, i) # 0}
  IN  IF differ = {} THEN 0
      ELSE LET i == CHOOSE x \in differ : \A y \in differ : x <= y
           IN  PartAt(partsA, i) - PartAt(partsB, i)

\* the comparator of versions.sort: the first non-zero partsB[i] - partsA[i]
compareVersions(a, b) ==
  LET partsA == Parts(a)
      partsB == Parts(b)
      n == IF Len(partsA) < Len(partsB) THEN Len(partsB) ELSE Len(partsA)
      differ == {i \in 1..n : PartAt(partsB, i) - PartAt(partsA, i) # 0}
  IN  IF differ = {} THEN 0
      ELSE LET i == CHOOSE x \in differ : \A y \in differ : x <= y
           IN  PartAt(partsB, i) - PartAt(partsA, i)

\* versions.sort(compare): Array.prototype.sort is stable, so with this
\* comparator the result is the stable insertion of each element in turn
RECURSIVE insert(_, _)
insert(sorted, x) ==
  IF sorted = <<>> THEN <<x>>
  ELSE IF compareVersions(Head(sorted), x) <= 0
       THEN <<Head(sorted)>> \o insert(Tail(sorted), x)
       ELSE <<x>> \o sorted

RECURSIVE sort(_)
sort(seq) ==
  IF seq = <<>> THEN <<>>
  ELSE insert(sort(SubSeq(seq, 1, Len(seq) - 1)), seq[Len(seq)])

\* /^\d+\.\d+/.test(dir)
VersionLike(dir) ==
  LET e == DigitsEnd(dir, 1)
  IN  /\ e >= 1
      /\ StartsWithAt(dir, e + 1, s_dot)
      /\ DigitsEnd(dir, e + 2) >= e + 2

\* An entry of the tools directory: its name (the text is what the code
\* sees), what fs.statSync finds ("dir", "file", or "broken": it throws, as
\* for a dangling link), and the binaries in its bin directory.
\* fs.statSync(fullPath).isDirectory() && /^\d+\.\d+/.test(dir)
IsVersionDir(e) == e.kind = "dir" /\ VersionLike(e.v.text)

\* the names readdirSync lists that pass the filter, sorted
Versions(entries) ==
  LET kept == SelectSeq(entries, IsVersionDir)
  IN  sort([i \in 1..Len(kept) |-> kept[i].v.text])

\* path.join(homeDir, '.proto', 'tools', toolName)
ProtoToolsDir(toolName) == join(join(s_home, s_protoTools), toolName)

\* path.join(protoToolsDir, latestVersion, 'bin', binaryName)
ActualBinaryPath(toolName, version, binaryName) ==
  join(join(join(ProtoToolsDir(toolName), version), s_bin), binaryName)

\* fs.existsSync(path) for a path of a binary under the tools directory
existsSync(disk, path) ==
  /\ disk.dir = "listed"
  /\ \E i \in 1..Len(disk.entries) :
       /\ disk.entries[i].kind = "dir"
       /\ \E b \in disk.entries[i].bins :
            path = ActualBinaryPath(s_node, disk.entries[i].v.text, b)

Returned(path) == [raised |-> FALSE, path |-> path]
Raised == [raised |-> TRUE, path |-> NULL]

\* resolveProtoShim(shimPath, binaryName) on a disk whose tools directory is
\* "missing", "unlistable" (readdirSync throws) or "listed"
resolveProtoShim(shimPath, binaryName, disk) ==
  IF ~includes(shimPath, s_protoShims) THEN Returned(shimPath)
  ELSE LET toolName == IF binaryName = s_npx THEN s_node ELSE binaryName
       IN  IF disk.dir = "missing" THEN Returned(shimPath)
           ELSE IF disk.dir = "unlistable" THEN Raised
           ELSE IF \E i \in 1..Len(disk.entries) : disk.entries[i].kind = "broken"
                THEN Raised
           ELSE LET versions == Versions(disk.entries)
                IN  IF Len(versions) = 0 THEN Returned(shimPath)
                    ELSE LET latestVersion == versions[1]
                             actualBinaryPath ==
                               ActualBinaryPath(toolName, latestVersion, binaryName)
                         IN  IF existsSync(disk, actualBinaryPath)
                             THEN Returned(actualBinaryPath)
                             ELSE Returned(shimPath)

\* ---------------------------------------------------------------------------
\* Directory names. A name is built from its dot-separated components; a
\* component is an optional integer followed by a suffix that holds no dot
\* and does not start with a digit. The code sees only the text.
\* ---------------------------------------------------------------------------

RECURSIVE NatText(_)
NatText(n) ==
  IF n < 10 THEN <<DigitSeq[n + 1]>>
  ELSE NatText(n \div 10) \o <<DigitSeq[(n % 10) + 1]>>

IntText(n) == IF n < 0 THEN <<"-">> \o NatText(0 - n) ELSE NatText(n)

\* a component: whether it starts with an integer, the integer, the rest
Comp(has, num, suffix) == [has |-> has, num |-> num, suffix |-> suffix]
Num(n) == Comp(TRUE, n, <<>>)

CompText(c) == IF c.has THEN IntText(c.num) \o c.suffix ELSE c.suffix

RECURSIVE NameText(_)
NameText(comps) ==
  IF Len(comps) = 1 THEN CompText(comps[1])
  ELSE CompText(comps[1]) \o s_dot \o NameText(Tail(comps))

Name(comps) == [comps |-> comps, text |-> NameText(comps)]

v_1_2_0 == Name(<<Num(1), Num(2), Num(0)>>)
v_1_10_0 == Name(<<Num(1), Num(10), Num(0)>>)
v_2_0_0_beta == Name(<<Num(2), Num(0), Comp(TRUE, 0, <<"-", "b", "e", "t", "a">>)>>)
v_2_0_1 == Name(<<Num(2), Num(0), Num(1)>>)
v_2_0_3rc == Name(<<Num(2), Num(0), Comp(TRUE, 3, <<"r", "c">>)>>)
v_current == Name(<<Comp(FALSE, 0, <<"c", "u", "r", "r", "e", "n", "t">>)>>)

\* the names a tools directory may hold: the above and 1.2, 2.0.beta,
\* 2.0.-3.9, 10.0.0 and 1.x
VersionNames ==
  {v_1_2_0, v_1_10_0, v_2_0_0_beta, v_2_0_1, v_2_0_3rc, v_current,
   Name(<<Num(1), Num(2)>>),
   Name(<<Num(2), Num(0), Comp(FALSE, 0, <<"b", "e", "t", "a">>)>>),
   Name(<<Num(2), Num(0), Num(0 - 3), Num(9)>>),
   Name(<<Num(10), Num(0), Num(0)>>),
   Name(<<Num(1), Comp(FALSE, 0, <<"x">>)>>)}

ShimNames == {v_1_2_0, v_1_10_0, v_current}

MaxEntries == 2
MaxVersions == 3

BinaryNames == {s_node, s_npx}
ShimDir == join(s_home, s_protoShims)

\* the (configured path, binary name) pairs getPaths passes
ShimArgs ==
  {<<join(dir, b), b>> : dir \in {ShimDir, s_usrBin}, b \in BinaryNames}

Entries(names, kinds, binSets) ==
  {[v |-> n, kind |-> k, bins |-> b] : n \in names, k \in kinds, b \in binSets}

\* listings of at most n entries with distinct names, in any order
Listings(entries, n) ==
  {l \in UNION {[1..m -> entries] : m \in 0..n} :
     \A i, j \in 1..Len(l) : i # j => l[i].v # l[j].v}

ShimDisks ==
  {[dir |-> d, entries |-> l] :
     d \in {"missing", "unlistable", "listed"},
     l \in Listings(Entries(ShimNames, {"dir", "file", "broken"},
                            {{}, {s_node}, BinaryNames}), MaxEntries)}

InitShim ==
  /\ Constructed
  /\ config = [nodePath |-> "", npxPath |-> ""]
  /\ quota = [calls |-> 0, kills |-> 0, chunks |-> 0]
  /\ platform = "posix"
  /\ probe \in {[NoProbe EXCEPT !.fn = "shim", !.shimPath = a[1], !.binaryName = a[2],
                                !.disk = d] : a \in ShimArgs, d \in ShimDisks}

\* ResolveShim that stores the path it resolved as the configured one
ResolveShim_persist ==
  /\ probe.fn = "shim" /\ ~probe.done
  /\ probe' = [probe EXCEPT !.done = TRUE,
                 !.result = resolveProtoShim(probe.shimPath, probe.binaryName, probe.disk)]
  /\ config' = [config EXCEPT !.nodePath = "resolved"]
  /\ UNCHANGED <<serverProcess, serverUrl, cachedShellEnv, call, child, kill, quota,
                 platform, app>>

ResolveShim ==
  /\ probe.fn = "shim" /\ ~probe.done
  /\ probe' = [probe EXCEPT !.done = TRUE,
                 !.result = resolveProtoShim(probe.shimPath, probe.binaryName, probe.disk)]
  /\ UNCHANGED <<config, serverProcess, serverUrl, cachedShellEnv, call, child, kill, quota,
                 platform, app>>

SpecShim == InitShim /\ [][ResolveShim]_vars

\* The order the names have by their components, read from the structure of
\* the name and not from its text: a component counts by its leading integer,
\* and as 0 when it has none or is missing.
LeadingValue(c) == IF c.has THEN c.num ELSE 0

\* the other reading: a component counts only when it is a number and
\* nothing else, and as 0 otherwise
WholeValue(c) == IF c.has /\ c.suffix = <<>> THEN c.num ELSE 0

Value(reading, c) == IF reading = "leading" THEN LeadingValue(c) ELSE WholeValue(c)

ValueAt(value, v, i) == IF i <= Len(v.comps) THEN Value(value, v.comps[i]) ELSE 0

Greater(value, a, b) ==
  \E i \in 1..(Len(a.comps) + Len(b.comps)) :
    /\ ValueAt(value, a, i) > ValueAt(value, b, i)
    /\ \A j \in 1..(i - 1) : ValueAt(value, a, j) = ValueAt(value, b, j)

\* a name that starts with digits, a dot and a digit
IsVersionName(v) ==
  /\ Len(v.comps) >= 2
  /\ v.comps[1].has /\ v.comps[1].num >= 0 /\ v.comps[1].suffix = <<>>
  /\ v.comps[2].has /\ v.comps[2].num >= 0

VersionDirs(disk) ==
  IF disk.dir # "listed" THEN {}
  ELSE {disk.entries[i] : i \in {j \in 1..Len(disk.entries) :
          disk.entries[j].kind = "dir" /\ IsVersionName(disk.entries[j].v)}}

Highest(value, disk) ==
  {e \in VersionDirs(disk) : \A o \in VersionDirs(disk) : ~Greater(value, o.v, e.v)}

UnderShimDir(shimPath) == shimPath \in {join(ShimDir, b) : b \in BinaryNames}

\* the paths the contract allows resolveProtoShim to return
Allowed(value, shimPath, binaryName, disk) ==
  IF ~UnderShimDir(shimPath) THEN {shimPath}
  ELSE {ActualBinaryPath(s_node, e.v.text, binaryName) :
          e \in {h \in Highest(value, disk) : binaryName \in h.bins}}
       \cup (IF /\ Highest(value, disk) # {}
                   /\ \A h \in Highest(value, disk) : binaryName \in h.bins
             THEN {} ELSE {shimPath})

\* C19: resolveProtoShim never raises and returns the configured path when it
\* is not under the shim directory, the binary path under the highest version
\* directory when that binary exists, and the configured path otherwise,
\* whatever the state of the tools directory.
C19_NeverRaises ==
  (probe.fn = "shim" /\ probe.done) =>
     /\ ~probe.result.raised
     /\ probe.result.path \in
          Allowed("leading", probe.shimPath, probe.binaryName, probe.disk)

\* a shim path was resolved on a listed directory holding an entry that
\* cannot be stat-ed, and the call raised
C19_Witness ==
  /\ probe.fn = "shim" /\ probe.done
  /\ UnderShimDir(probe.shimPath)
  /\ probe.disk.dir = "listed"
  /\ \E i \in 1..Len(probe.disk.entries) : probe.disk.entries[i].kind = "broken"
  /\ probe.result.raised

\* ---------------------------------------------------------------------------
\* Version selection: resolveProtoShim for the node shim on a listed tools
\* directory whose entries are all directories holding both binaries, for
\* every listing order of up to MaxVersions names.
\* ---------------------------------------------------------------------------

InitVersions ==
  /\ Constructed
  /\ config = [nodePath |-> "", npxPath |-> ""]
  /\ quota = [calls |-> 0, kills |-> 0, chunks |-> 0]
  /\ platform = "posix"
  /\ probe \in {[NoProbe EXCEPT !.fn = "versions", !.shimPath = join(ShimDir, s_node),
                                !.binaryName = s_node,
                                !.disk = [dir |-> "listed", entries |-> l]] :
                   l \in Listings(Entries(VersionNames, {"dir"}, {BinaryNames}),
                                  MaxVersions)}

SelectVersion ==
  /\ probe.fn = "versions" /\ ~probe.done
  /\ probe' = [probe EXCEPT !.done = TRUE,
                 !.sorted = Versions(probe.disk.entries),
                 !.result = resolveProtoShim(probe.shimPath, probe.binaryName, probe.disk)]
  /\ UNCHANGED <<config, serverProcess, serverUrl, cachedShellEnv, call, child, kill, quota,
                 platform, app>>

SpecVersions == InitVersions /\ [][SelectVersion]_vars

NameOf(text) == CHOOSE v \in VersionNames : v.text = text

Listed(disk) == {disk.entries[i].v : i \in 1..Len(disk.entries)}

\* what the claim says of a finished selection, for a reading of "the value
\* of a component": the sorted list holds the version-like names with no name
\* after a smaller one, the returned path is under a maximum, and the three
\* names of the example come out as 2.0.0-beta, 1.10.0, 1.2.0
SelectionHolds(reading) ==
  (probe.fn = "versions" /\ probe.done) =>
     /\ {NameOf(probe.sorted[i]) : i \in 1..Len(probe.sorted)}
          = {v \in Listed(probe.disk) : IsVersionName(v)}
     /\ \A i, j \in 1..Len(probe.sorted) :
          i < j => ~Greater(reading, NameOf(probe.sorted[j]), NameOf(probe.sorted[i]))
     /\ ~probe.result.raised
     /\ probe.result.path \in
          Allowed(reading, probe.shimPath, probe.binaryName, probe.disk)
     /\ Listed(probe.disk) = {v_1_2_0, v_1_10_0, v_2_0_0_beta}
          => probe.sorted = <<v_2_0_0_beta.text, v_1_10_0.text, v_1_2_0.text>>

\* C20: version selection picks a directory that is greatest under the
\* component-wise numeric comparison of the dot-separated name, where a
\* component counts by the integer it starts with (a suffix after the digits
\* is ignored) and as 0 when it starts with none or is missing; for
\* {1.2.0, 1.10.0, 2.0.0-beta} the order is 2.0.0-beta > 1.10.0 > 1.2.0.
C20_SelectsMaximum == SelectionHolds("leading")

\* C20 as stated: a component that is not a number counts as 0
C20_NonNumericAsZero == SelectionHolds("whole")

\* the example directory, listed in ascending order, resolved to 2.0.0-beta
C20_Witness ==
  /\ probe.fn = "versions" /\ probe.done
  /\ Len(probe.disk.entries) = 3
  /\ probe.disk.entries[1].v = v_1_2_0
  /\ probe.disk.entries[2].v = v_1_10_0
  /\ probe.disk.entries[3].v = v_2_0_0_beta
  /\ probe.result = Returned(ActualBinaryPath(s_node, v_2_0_0_beta.text, s_node))

\* ---------------------------------------------------------------------------
\* The capture of the shell environment: startServer calls, the events of
\* their login shells, and the spawn that follows the capture.
\* ---------------------------------------------------------------------------

InitCapture ==
  /\ Constructed
  /\ config = [nodePath |-> "/usr/bin/node", npxPath |-> "/usr/bin/npx"]
  /\ quota = [calls |-> MaxCalls, kills |-> 0, chunks |-> 0]
  /\ probe = NoProbe
  /\ platform \in Platforms

NextCapture ==
  \/ \E c \in Calls, ok \in BOOLEAN : StartServer(c, ok)
  \/ \E c \in Calls, code \in ShellCodes, out \in ShellOutputs : ShellClose(c, code, out)
  \/ \E c \in Calls : ShellTimeout(c)
  \/ \E c \in Calls, ok \in BOOLEAN : SpawnServer(c, ok)
  \/ \E c \in Calls, code \in ExitCodes : ExitEvent(c, code)

SpecCapture == InitCapture /\ [][NextCapture]_vars

\* C23: once a snapshot is cached its contents stay the same in every later
\* state, and a startServer call made while it is cached takes it without
\* spawning the login shell.
C23_SnapshotReused ==
  [][/\ cachedShellEnv # NoEnv => cachedShellEnv' = cachedShellEnv
     /\ \A c \in Calls :
          (cachedShellEnv # NoEnv /\ call[c].pc = "new" /\ call'[c].pc = "env")
            => call'[c].shell = "none" /\ call'[c].env = cachedShellEnv]_vars

\* a later call spawned its child with the cached snapshot and no shell
C23_Witness ==
  /\ cachedShellEnv # NoEnv
  /\ call[1].env = cachedShellEnv /\ call[1].shell = "closed"
  /\ call[2].pc = "spawned" /\ call[2].shell = "none" /\ call[2].env = cachedShellEnv

\* C24: a capture resolves once and never rejects; when the login shell
\* cannot be spawned, exits non-zero or runs into the 5 s timer it resolves
\* with the supervisor's own environment; and a capture that fell back to
\* that environment caches nothing.
C24_CaptureFallsBack ==
  [][\A c \in Calls :
       /\ call[c].env # "none" => call'[c].env = call[c].env
       /\ call'[c].pc = "env" => call'[c].promise = Pending
       /\ (ShellTimeout(c) \/ \E out \in ShellOutputs : ShellClose(c, 1, out))
            => call'[c].env = "process"
       /\ (call[c].pc = "new" /\ call'[c].pc = "env" /\ call'[c].shell = "closed")
            => call'[c].env = "process"
       /\ (call'[c].shell # call[c].shell /\ call'[c].env = "process")
            => cachedShellEnv' = cachedShellEnv]_vars

\* the capture of a call ran into the 5 s timer and the call went on to
\* spawn its child with the supervisor's own environment
C24_Witness ==
  \E c \in Calls :
    /\ call[c].shell = "timedout"
    /\ call[c].env = "process"
    /\ call[c].pc = "spawned" /\ child[c] = "alive"

\* ---------------------------------------------------------------------------
\* Resolving twice: the path a resolution returned is resolved again, for the
\* same binary on the same disk.
\* ---------------------------------------------------------------------------

ResolveAgain ==
  /\ probe.fn = "shim" /\ probe.done /\ ~probe.twice
  /\ ~probe.result.raised
  /\ probe' = [probe EXCEPT !.twice = TRUE,
                 !.again = resolveProtoShim(probe.result.path, probe.binaryName, probe.disk)]
  /\ UNCHANGED <<config, serverProcess, serverUrl, cachedShellEnv, call, child, kill, quota,
                 platform, app>>

SpecResolveTwice == InitShim /\ [][ResolveShim \/ ResolveAgain]_vars

\* C21: a resolution changes neither the disk nor any state of the
\* supervisor, and resolving the path a resolution returned gives that path.
C21_Idempotent ==
  [][/\ probe'.disk = probe.disk
     /\ UNCHANGED <<config, serverProcess, serverUrl, cachedShellEnv, call, child, kill, app>>
     /\ probe'.twice => probe'.again = probe'.result]_vars

\* a shim path was resolved to the binary of a version directory, and that
\* path was resolved again
C21_Witness ==
  /\ probe.fn = "shim" /\ probe.twice
  /\ UnderShimDir(probe.shimPath)
  /\ probe.result.path # probe.shimPath
  /\ probe.again = probe.result

\* ---------------------------------------------------------------------------
\* The environment of the spawned child: startServer from getPaths to the
\* env object, for a configured node path, a disk, the environment the
\* capture gave and the port argument.  An environment is a record of the
\* variables that matter here; NULL stands for a variable that is not set.
\* ---------------------------------------------------------------------------

\* port?: number left out by the caller
Undefined == 0 - 1

\* the truthiness of port in ...(port ? { PORT: String(port) } : {})
Truthy(port) == port # Undefined /\ port # 0

s_none == <<"n", "o", "n", "e">>
s_defaultPath ==
  <<"/", "u", "s", "r", "/", "l", "o", "c", "a", "l", "/", "b", "i", "n", ":",
    "/", "u", "s", "r", "/", "b", "i", "n", ":", "/", "b", "i", "n">>

\* path.dirname of an absolute path of a file
dirname(p) ==
  LET last == CHOOSE i \in 1..Len(p) :
                p[i] = "/" /\ \A j \in (i + 1)..Len(p) : p[j] # "/"
  IN  IF last = 1 THEN s_slash ELSE SubSeq(p, 1, last - 1)

\* the env object with the environment of the capture spread after the
\* overrides, so that its values win
childEnv_shellEnvLast(shellEnv, nodePath, port) ==
  [PATH |-> IF shellEnv.PATH # NULL THEN shellEnv.PATH
            ELSE dirname(nodePath) \o s_colon \o s_defaultPath,
   BROWSER |-> IF shellEnv.BROWSER # NULL THEN shellEnv.BROWSER ELSE s_none,
   PORT |-> IF shellEnv.PORT # NULL THEN shellEnv.PORT
            ELSE IF Truthy(port) THEN NatText(port) ELSE NULL,
   PROTO_HOME |-> shellEnv.PROTO_HOME]

\* const env = { ...shellEnv, PATH: ..., BROWSER: 'none', ...(port ? ...) }
childEnv(shellEnv, nodePath, port) ==
  [PATH |-> dirname(nodePath) \o s_colon
              \o (IF shellEnv.PATH # NULL THEN shellEnv.PATH ELSE s_defaultPath),
   BROWSER |-> s_none,
   PORT |-> IF Truthy(port) THEN NatText(port) ELSE shellEnv.PORT,
   PROTO_HOME |-> shellEnv.PROTO_HOME]

\* the port field of the setup form: empty, or a number from 1024 to 65535
Ports == {Undefined, 1024, 3000}

s_firefox == <<"f", "i", "r", "e", "f", "o", "x">>
p_8080 == <<"8", "0", "8", "0">>
s_protoHome == s_home \o s_slash \o <<".", "p", "r", "o", "t", "o">>

ShellEnvs ==
  [PATH : {NULL, s_bin}, BROWSER : {NULL, s_firefox}, PORT : {NULL, p_8080},
   PROTO_HOME : {NULL, s_protoHome}]

EnvDisks ==
  {[dir |-> "missing", entries |-> <<>>]}
    \cup {[dir |-> "listed", entries |-> <<[v |-> v_1_10_0, kind |-> "dir", bins |-> b]>>] :
            b \in {{}, BinaryNames}}

InitEnv ==
  /\ Constructed
  /\ config = [nodePath |-> "", npxPath |-> ""]
  /\ quota = [calls |-> 0, kills |-> 0, chunks |-> 0]
  /\ platform = "posix"
  /\ probe \in {[NoProbe EXCEPT !.fn = "env", !.shimPath = join(dir, s_node),
                                !.binaryName = s_node, !.disk = d,
                                !.shellEnv = e, !.port = p] :
                   dir \in {ShimDir, s_usrBin}, d \in EnvDisks, e \in ShellEnvs, p \in Ports}

\* getPaths, then the env object
BuildEnv ==
  /\ probe.fn = "env" /\ ~probe.done
  /\ probe' = [probe EXCEPT !.done = TRUE,
                 !.result = resolveProtoShim(probe.shimPath, probe.binaryName, probe.disk),
                 !.env = childEnv(probe.shellEnv,
                            resolveProtoShim(probe.shimPath, probe.binaryName,
                                             probe.disk).path,
                            probe.port)]
  /\ UNCHANGED <<config, serverProcess, serverUrl, cachedShellEnv, call, child, kill, quota,
                 platform, app>>

SpecEnv == InitEnv /\ [][BuildEnv]_vars

\* C22: in the child's environment BROWSER is none whatever the captured
\* environment holds; PORT is the requested port when one was requested, and
\* what the captured environment holds when none was.
C22_BrowserAndPort ==
  (probe.fn = "env" /\ probe.done) =>
     /\ probe.env.BROWSER = <<"n", "o", "n", "e">>
     /\ probe.port = 1024 => probe.env.PORT = <<"1", "0", "2", "4">>
     /\ probe.port = 3000 => probe.env.PORT = <<"3", "0", "0", "0">>
     /\ probe.port = Undefined => probe.env.PORT = probe.shellEnv.PORT

\* a port was requested while the captured environment sets BROWSER and PORT
C22_Witness ==
  /\ probe.fn = "env" /\ probe.done
  /\ probe.port = 3000
  /\ probe.shellEnv.BROWSER = s_firefox /\ probe.shellEnv.PORT = p_8080
  /\ probe.env.PORT = <<"3", "0", "0", "0">>

\* C25: when the configured path is a version-manager shim the child's
\* environment holds the manager's home directory and its search path starts
\* with the manager's shim directory.
C25_ShimEnvironment ==
  (probe.fn = "env" /\ probe.done /\ UnderShimDir(probe.shimPath)) =>
     /\ probe.env.PROTO_HOME = s_protoHome
     /\ Prefix(probe.env.PATH, Len(ShimDir) + 1) = ShimDir \o s_colon

\* a shim path was resolved to the binary of a version directory and the
\* environment was built
C25_Witness ==
  /\ probe.fn = "env" /\ probe.done
  /\ UnderShimDir(probe.shimPath)
  /\ probe.result.path # probe.shimPath

\* ---------------------------------------------------------------------------
\* The runs of FairInit with the timers and the continuation of startServer
\* fair: an armed capture timer or startup timer fires unless it is
\* cancelled, and a startServer call whose capture resolved goes on.
\* ---------------------------------------------------------------------------
FairStartSpec ==
  /\ FairInit /\ [][Next]_vars
  /\ \A c \in Calls :
       /\ WF_vars(ShellTimeout(c))
       /\ WF_vars(\E ok \in BOOLEAN : SpawnServer(c, ok))
       /\ WF_vars(StartupTimeout(c))

\* C26: every startServer call that was made settles, as resolved with an
\* address or as rejected, and once settled its outcome never changes.
C26_CallSettlesOnce ==
  /\ \A c \in Calls : (call[c].pc # "new") ~> (call[c].promise.st # "pending")
  /\ [][\A c \in Calls :
          call[c].promise.st # "pending" => call'[c].promise = call[c].promise]_vars

\* a restart after an earlier server exited was rejected by its startup
\* timer, after a killServer call made while it was pending
C26_Witness ==
  /\ call[1].promise.st = "resolved" /\ child[1] = "exited"
  /\ call[2].fresh /\ call[2].promise = Rejected(Err("StartupTimeout"))
  /\ \E k \in 1..MaxKills : kill[k].target = 2

\* C27: once a killServer call for the child of a startServer call has
\* completed, by the child's exit or by the grace timer, the startup timer of
\* that call does not fire any more.
C27_StartupTimerSpent ==
  [][\A c \in Calls :
       (\E k \in Kills : kill[k].st = "resolved" /\ kill[k].target = c)
         => ~StartupTimeout(c)]_vars

\* a killServer call for a starting child completed by the child's exit, and
\* the startup timer of the call is cancelled
C27_Witness ==
  \E c \in Calls, k \in Kills :
    /\ kill[k].st = "resolved" /\ kill[k].target = c /\ kill[k].timer = "cleared"
    /\ child[c] = "exited"
    /\ call[c].timeout = "cleared"
    /\ call[c].promise.st = "rejected"

\* C28: the exit of a child that is not the active process leaves the handle
\* and the recorded URL of the active child alone, while that child is alive
\* and no killServer call is in progress for it.
C28_StaleExitLeavesNewer ==
  [][\A c \in Calls :
       (/\ child[c] = "alive" /\ child'[c] = "exited"
        /\ serverProcess # 0 /\ serverProcess # c
        /\ child[serverProcess] = "alive"
        /\ \A k \in Kills : ~(kill[k].st = "waiting" /\ kill[k].target = serverProcess))
         => /\ serverProcess' = serverProcess
            /\ serverUrl' = serverUrl
            /\ isRunning']_vars

\* the first child exited while the second was the active process: the
\* second is alive, no killServer call was made for it, and the handle is gone
C28_Witness ==
  /\ child[1] = "exited" /\ child[2] = "alive"
  /\ serverProcess = 0
  /\ \A k \in Kills : kill[k].target # 2

\* ---------------------------------------------------------------------------
\* One line of output that holds the readiness URL, delivered whole or cut
\* into two 'data' events at any position.
\* ---------------------------------------------------------------------------
\* the positions a line is cut at (a cut at or past its end leaves it whole)
MaxCut == 40

SplitChunks ==
  {UrlChunk(pre, s_http, host, p_3000, post) :
     pre \in {NULL, s_Listening}, host \in {s_localhost, s_wildcard}, post \in {NULL, s_nl}}

InitSplit ==
  /\ Constructed
  /\ config = [nodePath |-> "", npxPath |-> ""]
  /\ quota = [calls |-> 0, kills |-> 0, chunks |-> 0]
  /\ platform = "posix"
  /\ probe \in {[NoProbe EXCEPT !.fn = "split", !.chunk = ch, !.cut = n] :
                   ch \in SplitChunks, n \in 1..MaxCut}

\* a 'data' event with the next part of the line: the part up to the cut,
\* then the rest (no event for an empty rest)
DataPart ==
  LET text == probe.chunk.text
      cut == IF probe.cut < Len(text) THEN probe.cut ELSE Len(text)
      output == IF probe.fed = 0 THEN SubSeq(text, 1, cut)
                ELSE SubSeq(text, cut + 1, Len(text))
      match == URL_REGEX(output)
  IN  /\ probe.fn = "split" /\ ~probe.done
      /\ probe' = [probe EXCEPT
                     !.fed = @ + 1,
                     !.done = (probe.fed = 1 \/ cut = Len(text)),
                     !.url = IF ShouldRecord(match, probe.url)
                             THEN NormalizeUrl(match) ELSE @]
      /\ UNCHANGED <<config, serverProcess, serverUrl, cachedShellEnv, call, child, kill,
                     quota, platform, app>>

SpecSplit == InitSplit /\ [][DataPart]_vars

\* C29: however the line that holds the readiness URL is cut into chunks,
\* the address recorded is the complete URL with its complete port.
C29_SplitIndependent ==
  (probe.fn = "split" /\ probe.done) => probe.url = ExpectedAddress(probe.chunk)

\* a line cut after the URL gave the complete address
C29_Witness ==
  /\ probe.fn = "split" /\ probe.done /\ probe.fed = 2
  /\ probe.url = s_localhost3000

\* ---------------------------------------------------------------------------
\* Quitting: the before-quit handler and gracefulShutdown of the application
\* around one launch of the server.
\* ---------------------------------------------------------------------------

\* the process of the application runs: its handlers and timers can fire
Alive == app.state = "running"

\* await this.serverManager.killServer() made by handler h: the invocation
\* is the next unused one; when it resolves at once the handler goes on in
\* the same turn, else it is suspended
QuitKill(h) ==
  \E k \in 1..MaxKills :
    /\ kill[k].st = "unused"
    /\ \A j \in 1..MaxKills : j < k => kill[j].st # "unused"
    /\ killServer(k)
    /\ app' = [app EXCEPT !.isQuitting = TRUE, !.kills = @ + 1,
                          !.awaiting = @ \cup {<<h, k>>},
                          !.state = IF ~NothingToKill THEN @
                                    ELSE IF h = "before-quit" THEN "quit" ELSE "exit"]

\* 'before-quit', emitted for a quit request of the user and for app.quit():
\* the first time the quit is prevented and killServer awaited; with
\* isQuitting set the handler does nothing and the quit goes through
BeforeQuit ==
  /\ Alive
  /\ IF ~app.isQuitting
     THEN QuitKill("before-quit")
     ELSE /\ app' = [app EXCEPT !.state = "quit"]
          /\ UNCHANGED <<serverProcess, serverUrl, kill>>
  /\ UNCHANGED <<config, cachedShellEnv, call, child, quota, probe, platform>>

\* SIGINT or SIGTERM: gracefulShutdown
Shutdown ==
  /\ Alive
  /\ ~app.isQuitting
  /\ QuitKill("signal")
  /\ UNCHANGED <<config, cachedShellEnv, call, child, quota, probe, platform>>

\* the handler suspended on killServer invocation k goes on after it
\* resolved: app.quit(), whose before-quit now passes, or app.exit(0)
AfterKill(h, k) ==
  /\ Alive
  /\ <<h, k>> \in app.awaiting
  /\ kill[k].st = "resolved"
  /\ app' = [app EXCEPT !.state = IF h = "before-quit" THEN "quit" ELSE "exit"]
  /\ UNCHANGED <<config, serverProcess, serverUrl, cachedShellEnv, call, child, kill, quota,
                 probe, platform>>

InitQuit ==
  /\ Constructed
  /\ config = [nodePath |-> "/usr/bin/node", npxPath |-> "/usr/bin/npx"]
  /\ quota = [calls |-> 1, kills |-> 0, chunks |-> 1]
  /\ probe = NoProbe
  /\ platform \in Platforms

NextQuit ==
  \/ Alive /\ \E c \in Calls, ok \in BOOLEAN : StartServer(c, ok)
  \/ Alive /\ \E c \in Calls, code \in ExitCodes, out \in ShellOutputs : ShellClose(c, code, out)
  \/ Alive /\ \E c \in Calls : ShellTimeout(c)
  \/ Alive /\ \E c \in Calls, ok \in BOOLEAN : SpawnServer(c, ok)
  \/ Alive /\ \E c \in Calls, ch \in StdoutChunks : StdoutData(c, ch)
  \/ Alive /\ \E c \in Calls, code \in ExitCodes : ExitEvent(c, code)
  \/ Alive /\ \E c \in Calls : StartupTimeout(c)
  \/ Alive /\ \E k \in Kills : ForceKillTimeout(k)
  \/ BeforeQuit
  \/ Shutdown
  \/ \E h \in {"before-quit", "signal"}, k \in Kills : AfterKill(h, k)

SpecQuit == InitQuit /\ [][NextQuit]_vars

\* C30: whatever quit requests arrive, the quit handlers start killServer at
\* most once, and the application has not ended before that call completed.
C30_QuitAfterKill ==
  /\ app.kills <= 1
  /\ app.state # "running" =>
       /\ app.kills = 1
       /\ \A w \in app.awaiting : kill[w[2]].st = "resolved"

\* the application ended through app.exit(0) after a killServer call that
\* had to wait for a running server
C30_Witness ==
  /\ app.state = "exit"
  /\ \E k \in Kills : <<"signal", k>> \in app.awaiting /\ kill[k].st = "resolved"
                       /\ kill[k].target # 0

\* ---------------------------------------------------------------------------
\* The launch-server request: the IPC handler awaits launchServer, which
\* awaits startServer and tells the WindowManager the outcome.
\* ---------------------------------------------------------------------------

\* WindowManager.loadServerUrl(url): mainWindow.loadURL(url) when the window
\* exists and is not destroyed, else nothing; loadURL returns a promise that
\* nobody awaits, so a navigation that fails raises nothing here
loadServerUrl(w, url) ==
  IF w.open THEN [w EXCEPT !.shows = [op |-> "url", url |-> url, err |-> NoError]] ELSE w

\* WindowManager.showError(message): the error page with the message, under
\* the same guard
showError(w, message) ==
  IF w.open THEN [w EXCEPT !.shows = [op |-> "error", url |-> NULL, err |-> message]] ELSE w

\* launchServer with showError in a finally block instead of the catch block
launchServer_finally(a, c, p) ==
  LET loaded == IF p.st = "resolved" THEN loadServerUrl(a.window, p.url) ELSE a.window
      first  == IF p.st = "resolved"
                THEN <<[op |-> "loadServerUrl", url |-> p.url, err |-> NoError]>> ELSE <<>>
  IN  [a EXCEPT !.window = showError(loaded, p.err),
                !.launch[c] = [ipc |-> "resolved",
                               handed |-> a.launch[c].handed \o first \o
                                          <<[op |-> "showError", url |-> NULL, err |-> p.err]>>]]

\* launchServer from the point where the promise p of startServer call c has
\* settled: in the try block loadServerUrl(serverUrl), in the catch block
\* showError(error.message) (every rejection of startServer is an Error);
\* neither raises, so launchServer and with it the handler of the request
\* return normally
launchServer(a, c, p) ==
  IF p.st = "resolved"
  THEN [a EXCEPT !.window = loadServerUrl(@, p.url),
                 !.launch[c] = [ipc |-> "resolved",
                                handed |-> Append(@.handed,
                                  [op |-> "loadServerUrl", url |-> p.url, err |-> NoError])]]
  ELSE [a EXCEPT !.window = showError(@, p.err),
                 !.launch[c] = [ipc |-> "resolved",
                                handed |-> Append(@.handed,
                                  [op |-> "showError", url |-> NULL, err |-> p.err])]]

\* the continuation of launchServer after its await: a microtask queued when
\* the promise of the call settles
LaunchServer(c) ==
  /\ call[c].promise.st # "pending"
  /\ app.launch[c].ipc = "pending"
  /\ app' = launchServer(app, c, call[c].promise)
  /\ UNCHANGED <<config, serverProcess, serverUrl, cachedShellEnv, call, child, kill, quota,
                 probe, platform>>

\* the user closes the main window and the application stays (macOS: the
\* window-all-closed handler quits on every other platform)
WindowClosed ==
  /\ platform = "posix"
  /\ app.window.open
  /\ app' = [app EXCEPT !.window = [open |-> FALSE,
                                    shows |-> [op |-> "none", url |-> NULL, err |-> NoError]]]
  /\ UNCHANGED <<config, serverProcess, serverUrl, cachedShellEnv, call, child, kill, quota,
                 probe, platform>>

\* 'activate' with no window left: createMainWindow, which loads the setup
\* form, then loadServerUrl(getUrl()) when isRunning() and the URL is set
Activate ==
  /\ ~app.window.open
  /\ app' = [app EXCEPT !.window =
       LET created == [open |-> TRUE, shows |-> [op |-> "form", url |-> NULL, err |-> NoError]]
       IN  IF isRunning /\ getUrl # NULL THEN loadServerUrl(created, getUrl) ELSE created]
  /\ UNCHANGED <<config, serverProcess, serverUrl, cachedShellEnv, call, child, kill, quota,
                 probe, platform>>

InitLaunch ==
  /\ Constructed
  /\ config \in [nodePath : NodePaths, npxPath : NpxPaths]
  /\ quota = [calls |-> MaxCalls, kills |-> 0, chunks |-> MaxChunks - 1]
  /\ probe = NoProbe
  /\ platform \in Platforms

\* an event handler or a timer runs only when no continuation is queued:
\* microtasks run before the next event is taken.  The application calls
\* killServer only from its quit handlers, which are left out here.
NextLaunch ==
  LET Turn == \A c \in Calls : call[c].promise.st = "pending" \/ app.launch[c].ipc # "pending"
  IN  \/ Turn /\ \E n \in NodePaths, x \in NpxPaths : SetPaths(n, x)
      \/ Turn /\ \E c \in Calls, ok \in BOOLEAN : StartServer(c, ok)
      \/ Turn /\ \E c \in Calls, code \in ExitCodes, out \in ShellOutputs : ShellClose(c, code, out)
      \/ Turn /\ \E c \in Calls : ShellTimeout(c)
      \/ Turn /\ \E c \in Calls, ok \in BOOLEAN : SpawnServer(c, ok)
      \/ Turn /\ \E c \in Calls, ch \in StdoutChunks : StdoutData(c, ch)
      \/ Turn /\ \E c \in Calls, ch \in StderrChunks : StderrData(c, ch)
      \/ Turn /\ \E c \in Calls, code \in ExitCodes : ExitEvent(c, code)
      \/ Turn /\ \E c \in Calls : StartupTimeout(c)
      \/ Turn /\ \E k \in Kills : ForceKillTimeout(k)
      \/ Turn /\ WindowClosed
      \/ Turn /\ Activate
      \/ \E c \in Calls : LaunchServer(c)

\* the timers and the continuations are fair, as in FairStartSpec
SpecLaunch ==
  /\ InitLaunch /\ [][NextLaunch]_vars
  /\ \A c \in Calls :
       /\ WF_vars(ShellTimeout(c))
       /\ WF_vars(\E ok \in BOOLEAN : SpawnServer(c, ok))
       /\ WF_vars(StartupTimeout(c))
       /\ WF_vars(LaunchServer(c))

====
